---- MODULE Spec2Model ----
(***************************************************************************)
(* Model of src/order_comparison_tool.py: the order comparison pipeline    *)
(* (NDC normalisation, quantity coercion, match keys, the draft/submitted  *)
(* diff, the forecast left join and the display column selection).         *)
(*                                                                         *)
(* Text is a sequence of one-character strings ("nbsp" stands for U+00A0). *)
(* A DataFrame is [columns |-> set of column names, rows |-> sequence of   *)
(* [index |-> pandas index label, data |-> function column -> value]].     *)
(* A null cell (NaN) is a column of the frame missing from DOMAIN data.    *)
(***************************************************************************)
EXTENDS Integers, Sequences, FiniteSets, TLC

VARIABLES pc, draft_df, submitted_df, forecast_df,
          draft_dict, submitted_dict,
          diff_qty, added_keys, removed_keys,
          diff_qty_df, added_df, removed_df,
          unified_df, display_cols, report, draft_raw, submitted_raw,
          ndc_x, ndc_y, ndc_fx, ndc_fy, ndc_ffx

vars == <<pc, draft_df, submitted_df, forecast_df, draft_dict, submitted_dict,
          diff_qty, added_keys, removed_keys, diff_qty_df, added_df, removed_df,
          unified_df, display_cols, report, draft_raw, submitted_raw,
          ndc_x, ndc_y, ndc_fx, ndc_fy, ndc_ffx>>

pipeline_vars == <<draft_df, submitted_df, forecast_df, draft_dict, submitted_dict,
          diff_qty, added_keys, removed_keys, diff_qty_df, added_df, removed_df,
          unified_df, display_cols, report, draft_raw, submitted_raw>>

ndc_vars == <<ndc_x, ndc_y, ndc_fx, ndc_fy, ndc_ffx>>

(***************************************************************************)
(* Bounds of the model.                                                    *)
(***************************************************************************)
\* rows of the three workbooks together, in Spec and in SpecCols
MaxRows == 4
MaxColsRows == 1
\* characters of an identifier after its run of digits, in SpecNdc
MaxNdcLen == 2

(***************************************************************************)
(* Text helpers: the str methods the script uses.                          *)
(***************************************************************************)
DigitChars == {"0", "1", "2", "3", "4", "5", "6", "7", "8", "9"}

WhitespaceChars == {" ", "nbsp"}

RECURSIVE SelectChars(_, _)
SelectChars(s, keep) ==
    IF s = <<>> THEN <<>>
    ELSE (IF Head(s) \in keep THEN <<Head(s)>> ELSE <<>>) \o SelectChars(Tail(s), keep)

RECURSIVE DropChars(_, _)
DropChars(s, drop) ==
    IF s = <<>> THEN <<>>
    ELSE (IF Head(s) \in drop THEN <<>> ELSE <<Head(s)>>) \o DropChars(Tail(s), drop)

\* str.replace(" ", "")
replace_nbsp(s) == DropChars(s, {"nbsp"})

RECURSIVE lstrip(_)
lstrip(s) == IF s # <<>> /\ Head(s) \in WhitespaceChars THEN lstrip(Tail(s)) ELSE s

RECURSIVE rstrip(_)
rstrip(s) ==
    IF s # <<>> /\ s[Len(s)] \in WhitespaceChars THEN rstrip(SubSeq(s, 1, Len(s) - 1)) ELSE s

\* str.strip()
strip(s) == rstrip(lstrip(s))

LowerChar(c) ==
    CASE c = "A" -> "a"
      [] c = "B" -> "b"
      [] c = "C" -> "c"
      [] c = "X" -> "x"
      [] OTHER -> c

\* str.lower()
lower(s) == [i \in DOMAIN s |-> LowerChar(s[i])]

\* re.sub(r"\D", "", s): keeps only the digits
re_sub_keep_minus(s) == SelectChars(s, DigitChars \cup {"-"})

re_sub_nondigit(s) == SelectChars(s, DigitChars)

Zeros(n) == [i \in 1..n |-> "0"]

\* str.zfill(width): left-pads with zeros, after a leading sign, never truncates
zfill_always(s, width) == Zeros(width) \o s

zfill(s, width) ==
    IF Len(s) >= width THEN s
    ELSE IF s # <<>> /\ Head(s) \in {"+", "-"}
         THEN <<Head(s)>> \o Zeros(width - Len(s)) \o Tail(s)
         ELSE Zeros(width - Len(s)) \o s

NdcWidth == 11

normalize_ndc(ndc) ==
    IF ndc = <<>> THEN <<>>
    ELSE zfill(re_sub_nondigit(strip(replace_nbsp(ndc))), NdcWidth)

(***************************************************************************)
(* Specification SpecNdc: normalize_ndc applied to a pair of inputs, and   *)
(* once more to its own result.                                            *)
(***************************************************************************)
NdcChars == {"1", "2", "-", " ", "nbsp"}

RECURSIVE Strings(_, _)
Strings(chars, n) ==
    IF n = 0 THEN {<<>>}
    ELSE LET shorter == Strings(chars, n - 1)
         IN  shorter \cup {Append(s, c) : s \in shorter, c \in chars}

\* lengths of the run of digits put in front of an input: with the tail it
\* gives fewer than, exactly and more than NdcWidth digits
RunLens == {0, NdcWidth - 2, NdcWidth + 1}

NdcInputs == {[i \in 1..n |-> "7"] \o s : n \in RunLens, s \in Strings(NdcChars, MaxNdcLen)}

EmptyDf == [columns |-> {}, rows |-> <<>>]

NoReport == [header |-> <<>>, rows |-> <<>>]

PipelineIdle ==
    /\ draft_df = EmptyDf /\ submitted_df = EmptyDf /\ forecast_df = EmptyDf
    /\ draft_raw = EmptyDf /\ submitted_raw = EmptyDf
    /\ draft_dict = <<>> /\ submitted_dict = <<>>
    /\ diff_qty = <<>> /\ added_keys = <<>> /\ removed_keys = <<>>
    /\ diff_qty_df = EmptyDf /\ added_df = EmptyDf /\ removed_df = EmptyDf
    /\ unified_df = EmptyDf /\ display_cols = <<>> /\ report = NoReport

NdcIdle ==
    ndc_x = <<>> /\ ndc_y = <<>> /\ ndc_fx = <<>> /\ ndc_fy = <<>> /\ ndc_ffx = <<>>

InitNdc ==
    /\ pc = "ndc_input"
    /\ ndc_x \in NdcInputs
    /\ ndc_y \in NdcInputs
    /\ ndc_fx = <<>> /\ ndc_fy = <<>> /\ ndc_ffx = <<>>
    /\ PipelineIdle

ApplyNormalize ==
    /\ pc = "ndc_input"
    /\ ndc_fx' = normalize_ndc(ndc_x)
    /\ ndc_fy' = normalize_ndc(ndc_y)
    /\ pc' = "ndc_once"
    /\ UNCHANGED <<ndc_x, ndc_y, ndc_ffx>>
    /\ UNCHANGED pipeline_vars

ApplyNormalizeAgain ==
    /\ pc = "ndc_once"
    /\ ndc_ffx' = normalize_ndc(ndc_fx)
    /\ pc' = "ndc_twice"
    /\ UNCHANGED <<ndc_x, ndc_y, ndc_fx, ndc_fy>>
    /\ UNCHANGED pipeline_vars

NextNdc == ApplyNormalize \/ ApplyNormalizeAgain

SpecNdc == InitNdc /\ [][NextNdc]_vars

(***************************************************************************)
(* DataFrame helpers: the pandas operations the script uses.               *)
(***************************************************************************)
Range(s) == {s[i] : i \in DOMAIN s}

RECURSIVE Flatten(_)
Flatten(ss) == IF ss = <<>> THEN <<>> ELSE Head(ss) \o Flatten(Tail(ss))

IsNull(row, c) == c \notin DOMAIN row.data

\* df[c] = series: one value for each row
SetCol(df, c, series) ==
    [columns |-> df.columns \cup {c},
     rows |-> [i \in DOMAIN df.rows |->
                 [df.rows[i] EXCEPT !.data = (c :> series[i]) @@ @]]]

\* df["NDC"] = df["NDC"].apply(normalize_ndc)
apply_normalize_ndc(df) ==
    [df EXCEPT !.rows = [i \in DOMAIN @ |-> [@[i] EXCEPT !.data["NDC"] = normalize_ndc(@)]]]

DigitValue(c) ==
    CASE c = "0" -> 0 [] c = "1" -> 1 [] c = "2" -> 2 [] c = "3" -> 3 [] c = "4" -> 4
      [] c = "5" -> 5 [] c = "6" -> 6 [] c = "7" -> 7 [] c = "8" -> 8 [] c = "9" -> 9

RECURSIVE DecimalValue(_)
DecimalValue(s) ==
    IF s = <<>> THEN 0 ELSE 10 * DecimalValue(SubSeq(s, 1, Len(s) - 1)) + DigitValue(s[Len(s)])

\* the texts pd.to_numeric parses, among the quantity texts of the model: a
\* non-empty run of digits
ParsesAsNumber(s) == s # <<>> /\ \A i \in DOMAIN s : s[i] \in DigitChars

\* pd.to_numeric(df[c], errors="coerce"): a text that fails to parse becomes NaN
to_numeric_coerce(df, c) ==
    [df EXCEPT !.rows = [i \in DOMAIN @ |->
        IF ParsesAsNumber(@[i].data[c])
        THEN [@[i] EXCEPT !.data[c] = DecimalValue(@)]
        ELSE [@[i] EXCEPT !.data = [k \in (DOMAIN @) \ {c} |-> @[k]]]]]

\* df[c].fillna(v)
fillna_plus_one(df, c, v) ==
    [df EXCEPT !.rows = [i \in DOMAIN @ |->
        IF IsNull(@[i], c) THEN [@[i] EXCEPT !.data = (c :> v + 1) @@ @] ELSE @[i]]]

fillna(df, c, v) ==
    [df EXCEPT !.rows = [i \in DOMAIN @ |->
        IF IsNull(@[i], c) THEN [@[i] EXCEPT !.data = (c :> v) @@ @] ELSE @[i]]]

\* lines 50-52, for one table
prepare_numeric(df) ==
    IF "Quantity" \in df.columns THEN fillna(to_numeric_coerce(df, "Quantity"), "Quantity", 0)
    ELSE df

\* lines 55-61: Notes.strip().lower() + "|" + Name.strip().lower() + "|" + NDC.strip()
MatchKey(row) ==
    lower(strip(row.data["Notes"])) \o <<"|">> \o lower(strip(row.data["Name"]))
        \o <<"|">> \o strip(row.data["NDC"])

(***************************************************************************)
(* A Python dict is a sequence of <<key, value>> pairs with distinct keys, *)
(* in insertion order.                                                     *)
(***************************************************************************)
dict_keys(d) == [i \in DOMAIN d |-> d[i][1]]

dict_has(d, k) == \E i \in DOMAIN d : d[i][1] = k

dict_get(d, k) == d[CHOOSE i \in DOMAIN d : d[i][1] = k][2]

dict_put(d, k, v) ==
    IF dict_has(d, k) THEN [i \in DOMAIN d |-> IF d[i][1] = k THEN <<k, v>> ELSE d[i]]
    ELSE Append(d, <<k, v>>)

dict_put_if_absent(d, k, v) == IF dict_has(d, k) THEN d ELSE Append(d, <<k, v>>)

RECURSIVE to_dict_first_wins(_)
to_dict_first_wins(rows) ==
    IF rows = <<>> THEN <<>>
    ELSE LET r == rows[Len(rows)]
         IN  dict_put_if_absent(to_dict_first_wins(SubSeq(rows, 1, Len(rows) - 1)),
                                r.data["Key"], r.data["Quantity"])

\* df.set_index("Key")["Quantity"].to_dict(): a later row overwrites an earlier one
RECURSIVE to_dict(_)
to_dict(rows) ==
    IF rows = <<>> THEN <<>>
    ELSE LET r == rows[Len(rows)]
         IN  dict_put(to_dict(SubSeq(rows, 1, Len(rows) - 1)), r.data["Key"], r.data["Quantity"])

\* lines 76-78
find_diff_qty_any(dd, sd) ==
    SelectSeq(dict_keys(dd), LAMBDA k : dict_has(sd, k))

find_diff_qty(dd, sd) ==
    SelectSeq(dict_keys(dd), LAMBDA k : dict_has(sd, k) /\ dict_get(dd, k) # dict_get(sd, k))

find_added_keys(dd, sd) == SelectSeq(dict_keys(sd), LAMBDA k : ~dict_has(dd, k))

find_removed_keys_all(dd, sd) == dict_keys(dd)

find_removed_keys(dd, sd) == SelectSeq(dict_keys(dd), LAMBDA k : ~dict_has(sd, k))

\* df[df["Key"].isin(keys)].copy(): the rows kept keep their index labels
select_isin(df, keys) ==
    [df EXCEPT !.rows = SelectSeq(@, LAMBDA r : r.data["Key"] \in Range(keys))]

\* df[c] = df["Key"].map(d): a key the dict lacks gives NaN
map_key_swapped(df, c, d) ==
    [columns |-> df.columns \cup {c},
     rows |-> [i \in DOMAIN df.rows |->
        [df.rows[i] EXCEPT !.data = (c :> @["Quantity"]) @@ @]]]

map_key(df, c, d) ==
    [columns |-> df.columns \cup {c},
     rows |-> [i \in DOMAIN df.rows |->
        IF dict_has(d, df.rows[i].data["Key"])
        THEN [df.rows[i] EXCEPT !.data = (c :> dict_get(d, @["Key"])) @@ @]
        ELSE df.rows[i]]]

(***************************************************************************)
(* attach_forecast and pd.concat.  A merged row records, beside its data,  *)
(* the index labels of the order row and of the forecast row it joins      *)
(* (right_index = -1: no forecast row); pandas does not keep them.         *)
(***************************************************************************)
JoinKeys == {"StationNameKey", "NDCKey"}

\* lines 93-94 and 96-97
with_join_keys(df, station) ==
    SetCol(SetCol(df, "StationNameKey",
                  [i \in DOMAIN df.rows |-> lower(strip(df.rows[i].data[station]))]),
           "NDCKey", [i \in DOMAIN df.rows |-> strip(df.rows[i].data["NDC"])])

Suffixed(c, overlap) == IF c \in overlap THEN c \o "_Forecast" ELSE c

Overlap(left, right) == (left.columns \cap right.columns) \ JoinKeys

RenamedRight(r, overlap) ==
    LET cs == (DOMAIN r.data) \ JoinKeys
        src(n) == CHOOSE c \in cs : Suffixed(c, overlap) = n
    IN  [n \in {Suffixed(c, overlap) : c \in cs} |-> r.data[src(n)]]

KeysMatch(l, r) == \A k \in JoinKeys : l.data[k] = r.data[k]

MatchesOf(l, right) == SelectSeq(right.rows, LAMBDA r : KeysMatch(l, r))

Reindex(rows) == [i \in DOMAIN rows |-> [rows[i] EXCEPT !.index = i - 1]]

merge_inner(left, right) ==
    LET ov == Overlap(left, right)
        fan(l) == [j \in DOMAIN MatchesOf(l, right) |->
                     [index |-> 0, left_index |-> l.index,
                      right_index |-> MatchesOf(l, right)[j].index,
                      data |-> l.data @@ RenamedRight(MatchesOf(l, right)[j], ov)]]
    IN  [columns |-> left.columns \cup {Suffixed(c, ov) : c \in right.columns \ JoinKeys},
         rows |-> Reindex(Flatten([i \in DOMAIN left.rows |-> fan(left.rows[i])]))]

\* left.merge(right, how="left", on=JoinKeys, suffixes=("", "_Forecast"))
merge_left(left, right) ==
    LET ov == Overlap(left, right)
        fan(l) ==
            LET ms == MatchesOf(l, right)
            IN  IF ms = <<>>
                THEN <<[index |-> 0, left_index |-> l.index, right_index |-> -1,
                        data |-> l.data]>>
                ELSE [j \in DOMAIN ms |->
                        [index |-> 0, left_index |-> l.index, right_index |-> ms[j].index,
                         data |-> l.data @@ RenamedRight(ms[j], ov)]]
    IN  [columns |-> left.columns \cup {Suffixed(c, ov) : c \in right.columns \ JoinKeys},
         rows |-> Reindex(Flatten([i \in DOMAIN left.rows |-> fan(left.rows[i])]))]

\* lines 92-106: the frame attach_forecast returns
attach_forecast(order_df, fc) ==
    merge_left(with_join_keys(order_df, "Notes"), with_join_keys(fc, "StationName"))

concat_reversed(frames) ==
    [columns |-> UNION {frames[i].columns : i \in DOMAIN frames},
     rows |-> Reindex(Flatten([i \in DOMAIN frames |-> frames[Len(frames) + 1 - i].rows]))]

\* pd.concat(frames, ignore_index=True)
concat(frames) ==
    [columns |-> UNION {frames[i].columns : i \in DOMAIN frames},
     rows |-> Reindex(Flatten([i \in DOMAIN frames |-> frames[i].rows]))]

\* lines 115-127
forecast_cols ==
    <<"Required Qty", "On Hand Qty", "Pending Qty", "Pending Treatment Qty", "Patient Qty",
      "Transfer In", "Transfer Out", "Net Qty", "PAR Min", "PAR Max",
      "Order Qty with PAR (in Inventory Units)">>

\* lines 130-140
select_display_cols(df) ==
    <<"ChangeType", "POReferenceNumber", "Notes", "Name", "DrugName", "NDC", "Quantity",
      "Submitted Quantity", "Product Description">>
        \o SelectSeq(forecast_cols, LAMBDA col : col \in df.columns)

\* df[cols]: the rows restricted to the columns asked for
project(df, cols) ==
    [header |-> cols,
     rows |-> [i \in DOMAIN df.rows |->
                 [c \in Range(cols) \cap DOMAIN df.rows[i].data |-> df.rows[i].data[c]]]]

(***************************************************************************)
(* The tables read from the three workbooks (lines 27-29: every cell a     *)
(* text, an empty cell the empty text).                                    *)
(***************************************************************************)
RequiredOrderColumns == {"Notes", "Name", "NDC", "Quantity"}

RequiredForecastColumns == {"StationName", "NDC"}

OrderOptionalColumns == {"POReferenceNumber", "DrugName"}

ForecastOptionalColumns == {"DrugName", "Product Description", "Required Qty"}

QuantityTexts == {<<"0">>, <<"5">>, <<"x">>}

\* two stations with every quantity text, and a third station
OrderValues ==
    {[Notes |-> n, Name |-> <<"X">>, NDC |-> <<"1", "-">>, Quantity |-> q] :
        n \in {<<"A", " ">>, <<"b">>}, q \in QuantityTexts}
    \cup {[Notes |-> <<"C">>, Name |-> <<"X">>, NDC |-> <<"1", "-">>, Quantity |-> <<"5">>]}

ForecastValues ==
    {[StationName |-> <<"a">>, NDC |-> <<"1">>], [StationName |-> <<"B">>, NDC |-> <<"2">>]}

MakeData(base, cols) == [c \in cols |-> IF c \in DOMAIN base THEN base[c] ELSE <<"v">>]

Frames(cols, values, n) ==
    UNION {{[columns |-> cols,
             rows |-> [i \in 1..k |-> [index |-> i - 1, data |-> MakeData(t[i], cols)]]] :
                t \in [1..k -> values]} : k \in 0..n}

InitTables(maxRows, dopt, sopt, fopt) ==
    /\ pc = "read"
    /\ draft_df \in Frames(RequiredOrderColumns \cup dopt, OrderValues, maxRows)
    /\ submitted_df \in Frames(RequiredOrderColumns \cup sopt, OrderValues,
                               maxRows - Len(draft_df.rows))
    /\ forecast_df \in Frames(RequiredForecastColumns \cup fopt, ForecastValues,
                              maxRows - Len(draft_df.rows) - Len(submitted_df.rows))
    /\ draft_raw = draft_df /\ submitted_raw = submitted_df
    /\ draft_dict = <<>> /\ submitted_dict = <<>>
    /\ diff_qty = <<>> /\ added_keys = <<>> /\ removed_keys = <<>>
    /\ diff_qty_df = EmptyDf /\ added_df = EmptyDf /\ removed_df = EmptyDf
    /\ unified_df = EmptyDf /\ display_cols = <<>> /\ report = NoReport
    /\ NdcIdle

\* every optional column the report shows is in the workbooks
Init ==
    InitTables(MaxRows, {"POReferenceNumber"}, {"POReferenceNumber"}, ForecastOptionalColumns)

\* the workbooks have the required columns and any of the optional ones
InitCols ==
    \E dopt \in SUBSET OrderOptionalColumns, sopt \in SUBSET OrderOptionalColumns,
       fopt \in SUBSET ForecastOptionalColumns :
        InitTables(MaxColsRows, dopt, sopt, fopt)

(***************************************************************************)
(* The steps of the script, in order.                                      *)
(***************************************************************************)
\* lines 41-43
NormalizeNdc ==
    /\ pc = "read"
    /\ draft_df' = apply_normalize_ndc(draft_df)
    /\ submitted_df' = apply_normalize_ndc(submitted_df)
    /\ forecast_df' = apply_normalize_ndc(forecast_df)
    /\ pc' = "normalized"
    /\ UNCHANGED <<draft_dict, submitted_dict, diff_qty, added_keys, removed_keys,
                   diff_qty_df, added_df, removed_df, unified_df, display_cols, report,
                   draft_raw, submitted_raw>>
    /\ UNCHANGED ndc_vars

\* lines 50-52
PrepareNumeric ==
    /\ pc = "normalized"
    /\ draft_df' = prepare_numeric(draft_df)
    /\ submitted_df' = prepare_numeric(submitted_df)
    /\ pc' = "numeric"
    /\ UNCHANGED <<forecast_df, draft_dict, submitted_dict, diff_qty, added_keys,
                   removed_keys, diff_qty_df, added_df, removed_df, unified_df,
                   display_cols, report, draft_raw, submitted_raw>>
    /\ UNCHANGED ndc_vars

\* lines 55-69
BuildKeys ==
    /\ pc = "numeric"
    /\ draft_df' = SetCol(draft_df, "Key",
                           [i \in DOMAIN draft_df.rows |-> MatchKey(draft_df.rows[i])])
    /\ submitted_df' = SetCol(submitted_df, "Key",
                               [i \in DOMAIN submitted_df.rows |-> MatchKey(submitted_df.rows[i])])
    /\ pc' = "keyed"
    /\ UNCHANGED <<forecast_df, draft_dict, submitted_dict, diff_qty, added_keys,
                   removed_keys, diff_qty_df, added_df, removed_df, unified_df,
                   display_cols, report, draft_raw, submitted_raw>>
    /\ UNCHANGED ndc_vars

\* lines 72-73
BuildDicts ==
    /\ pc = "keyed"
    /\ draft_dict' = to_dict(draft_df.rows)
    /\ submitted_dict' = to_dict(submitted_df.rows)
    /\ pc' = "dicts"
    /\ UNCHANGED <<draft_df, submitted_df, forecast_df, diff_qty, added_keys,
                   removed_keys, diff_qty_df, added_df, removed_df, unified_df,
                   display_cols, report, draft_raw, submitted_raw>>
    /\ UNCHANGED ndc_vars

\* lines 76-78
FindMismatches ==
    /\ pc = "dicts"
    /\ diff_qty' = find_diff_qty(draft_dict, submitted_dict)
    /\ added_keys' = find_added_keys(draft_dict, submitted_dict)
    /\ removed_keys' = find_removed_keys(draft_dict, submitted_dict)
    /\ pc' = "diffed"
    /\ UNCHANGED <<draft_df, submitted_df, forecast_df, draft_dict, submitted_dict,
                   diff_qty_df, added_df, removed_df, unified_df, display_cols, report,
                   draft_raw, submitted_raw>>
    /\ UNCHANGED ndc_vars

\* df["ChangeType"] = t
tag(df, t) == SetCol(df, "ChangeType", [i \in DOMAIN df.rows |-> t])

\* lines 81-89
BuildDataframes ==
    /\ pc = "diffed"
    /\ diff_qty_df' = tag(map_key(select_isin(draft_df, diff_qty), "Submitted Quantity",
                                  submitted_dict), "Quantity Changed")
    /\ added_df' = tag(select_isin(submitted_df, added_keys), "Added")
    /\ removed_df' = tag(select_isin(draft_df, removed_keys), "Removed")
    /\ pc' = "built"
    /\ UNCHANGED <<draft_df, submitted_df, forecast_df, draft_dict, submitted_dict,
                   diff_qty, added_keys, removed_keys, unified_df, display_cols, report,
                   draft_raw, submitted_raw>>
    /\ UNCHANGED ndc_vars

\* lines 109-112: attach_forecast on the three subsets, which also adds the join
\* key columns to its argument and to forecast_df, then pd.concat
MergeAll ==
    /\ pc = "built"
    /\ diff_qty_df' = with_join_keys(diff_qty_df, "Notes")
    /\ added_df' = with_join_keys(added_df, "Notes")
    /\ removed_df' = with_join_keys(removed_df, "Notes")
    /\ forecast_df' = with_join_keys(forecast_df, "StationName")
    /\ unified_df' = concat(<<attach_forecast(diff_qty_df, forecast_df),
                              attach_forecast(added_df, forecast_df),
                              attach_forecast(removed_df, forecast_df)>>)
    /\ pc' = "merged"
    /\ UNCHANGED <<draft_df, submitted_df, draft_dict, submitted_dict, diff_qty,
                   added_keys, removed_keys, display_cols, report, draft_raw,
                   submitted_raw>>
    /\ UNCHANGED ndc_vars

\* lines 130-150: unified_df[display_cols] raises KeyError when a column of the
\* list is not in the frame, and then no report is shown
Present ==
    /\ pc = "merged"
    /\ display_cols' = select_display_cols(unified_df)
    /\ IF Range(select_display_cols(unified_df)) \subseteq unified_df.columns
       THEN /\ report' = project(unified_df, select_display_cols(unified_df))
            /\ pc' = "done"
       ELSE /\ report' = report
            /\ pc' = "error"
    /\ UNCHANGED <<draft_df, submitted_df, forecast_df, draft_dict, submitted_dict,
                   diff_qty, added_keys, removed_keys, diff_qty_df, added_df, removed_df,
                   unified_df, draft_raw, submitted_raw>>
    /\ UNCHANGED ndc_vars

Next ==
    \/ NormalizeNdc
    \/ PrepareNumeric
    \/ BuildKeys
    \/ BuildDicts
    \/ FindMismatches
    \/ BuildDataframes
    \/ MergeAll
    \/ Present

Spec == Init /\ [][Next]_vars

SpecCols == InitCols /\ [][Next]_vars

(***************************************************************************)
(* Properties.                                                             *)
(***************************************************************************)
\* the digit characters of a text, in order
DigitsOf(s) == SelectSeq(s, LAMBDA c : c \in DigitChars)

\* C5: normalising a normalised identifier changes nothing:
\* normalize_ndc(normalize_ndc(x)) = normalize_ndc(x) for every input x.
C5_Idempotent == pc = "ndc_twice" => ndc_ffx = ndc_fx

\* the cases of C5: an input with more than NdcWidth digits and separators
C5_Witness ==
    /\ pc = "ndc_twice"
    /\ Len(DigitsOf(ndc_x)) > NdcWidth
    /\ Len(ndc_x) > Len(DigitsOf(ndc_x))
    /\ ndc_ffx = ndc_fx

\* C6 as stated: inputs with the same digit sequence normalise to the same string.
C6_DigitsOnly ==
    (pc = "ndc_once" /\ DigitsOf(ndc_x) = DigitsOf(ndc_y)) => ndc_fx = ndc_fy

\* C6 amended: two non-empty inputs with the same digit sequence normalise to the
\* same string (the empty input alone normalises to the empty string).
C6_DigitsOnlyNonEmpty ==
    (pc = "ndc_once" /\ ndc_x # <<>> /\ ndc_y # <<>>
       /\ DigitsOf(ndc_x) = DigitsOf(ndc_y)) => ndc_fx = ndc_fy

\* "1-" and " 1" both give "00000000001"
C6_Witness ==
    /\ pc = "ndc_once"
    /\ ndc_x = <<"1", "-">>
    /\ ndc_y = <<" ", "1">>
    /\ ndc_fx = ndc_fy
    /\ ndc_fx = Zeros(NdcWidth - 1) \o <<"1">>

AfterDiff == pc \in {"diffed", "built", "merged", "done", "error"}

AfterBuild == pc \in {"built", "merged", "done", "error"}

AfterMerge == pc \in {"merged", "done", "error"}

AfterPrepare == pc \notin {"read", "normalized"} /\ pc \notin {"ndc_input", "ndc_once", "ndc_twice"}

KeySet(df) == {df.rows[i].data["Key"] : i \in DOMAIN df.rows}

RowsWithKey(df, k) == {i \in DOMAIN df.rows : df.rows[i].data["Key"] = k}

LastRowWithKey(df, k) ==
    CHOOSE i \in RowsWithKey(df, k) : \A j \in RowsWithKey(df, k) : j <= i

\* the MatchKey -> Quantity mapping of a table: the last row with the key wins
LastQuantity(df, k) == df.rows[LastRowWithKey(df, k)].data["Quantity"]

RowLabelled(df, label) == CHOOSE r \in Range(df.rows) : r.index = label

ChangeTypeOf(r) == r.data["ChangeType"]

Records(t) == {i \in DOMAIN unified_df.rows : ChangeTypeOf(unified_df.rows[i]) = t}

HasDuplicateKey(df) ==
    \E i, j \in DOMAIN df.rows : i # j /\ df.rows[i].data["Key"] = df.rows[j].data["Key"]

\* C1: the Quantity Changed, Added and Removed key sets are pairwise disjoint, so are
\* the keys of the three subsets, and the records of one match key in the unified
\* table all carry the same ChangeType.
C1_Disjoint ==
    /\ AfterDiff =>
        /\ Range(diff_qty) \cap Range(added_keys) = {}
        /\ Range(diff_qty) \cap Range(removed_keys) = {}
        /\ Range(added_keys) \cap Range(removed_keys) = {}
    /\ AfterBuild =>
        /\ KeySet(diff_qty_df) \cap KeySet(added_df) = {}
        /\ KeySet(diff_qty_df) \cap KeySet(removed_df) = {}
        /\ KeySet(added_df) \cap KeySet(removed_df) = {}
    /\ AfterMerge =>
        \A i, j \in DOMAIN unified_df.rows :
            unified_df.rows[i].data["Key"] = unified_df.rows[j].data["Key"]
                => ChangeTypeOf(unified_df.rows[i]) = ChangeTypeOf(unified_df.rows[j])

\* the three kinds of change at once, with a match key on two draft rows
C1_Witness ==
    /\ pc = "done"
    /\ diff_qty # <<>> /\ added_keys # <<>>  /\ removed_keys # <<>>
    /\ Records("Quantity Changed") # {} /\ Records("Added") # {} /\ Records("Removed") # {}

\* C2: a key in both mappings (last row wins) with equal quantity has no row in the
\* Quantity Changed, Added or Removed subset, nor in the unified table.
C2_EqualQuantityUnreported ==
    AfterBuild =>
        \A k \in KeySet(draft_df) \cap KeySet(submitted_df) :
            LastQuantity(draft_df, k) = LastQuantity(submitted_df, k) =>
                /\ k \notin KeySet(diff_qty_df) \cup KeySet(added_df) \cup KeySet(removed_df)
                /\ AfterMerge => k \notin KeySet(unified_df)

\* a key on two draft rows of different quantity, the last equal to the submitted one,
\* beside a key that is reported
C2_Witness ==
    /\ pc = "done"
    /\ unified_df.rows # <<>>
    /\ \E k \in KeySet(draft_df) \cap KeySet(submitted_df) :
        /\ LastQuantity(draft_df, k) = LastQuantity(submitted_df, k)
        /\ \E i \in RowsWithKey(draft_df, k) :
              draft_df.rows[i].data["Quantity"] # LastQuantity(draft_df, k)
        /\ k \notin KeySet(unified_df)

\* C3: a Quantity Changed record is a draft row: Quantity and every other order
\* column are that draft row's, Submitted Quantity is the submitted mapping's
\* quantity for its key; the report shows the same values.
C3_DraftRowWins ==
    AfterMerge =>
        \A i \in Records("Quantity Changed") :
            LET r == unified_df.rows[i]
                d == RowLabelled(draft_df, r.left_index)
            IN  /\ r.left_index \in {draft_df.rows[j].index : j \in DOMAIN draft_df.rows}
                /\ r.data["Quantity"] = d.data["Quantity"]
                /\ d.data["Key"] \in KeySet(submitted_df)
                /\ r.data["Submitted Quantity"] = LastQuantity(submitted_df, d.data["Key"])
                /\ \A c \in draft_df.columns : r.data[c] = d.data[c]
                /\ pc = "done" =>
                    /\ report.rows[i]["Quantity"] = d.data["Quantity"]
                    /\ report.rows[i]["Submitted Quantity"]
                          = LastQuantity(submitted_df, d.data["Key"])
                    /\ \A c \in Range(report.header) \cap draft_df.columns :
                          report.rows[i][c] = d.data[c]

\* draft quantity 5, submitted quantity 0 for the same key, a forecast row joined
C3_Witness ==
    /\ pc = "done"
    /\ \E i \in Records("Quantity Changed") :
        /\ report.rows[i]["Quantity"] = 5
        /\ report.rows[i]["Submitted Quantity"] = 0
        /\ unified_df.rows[i].right_index >= 0

Classified ==
    <<[t |-> "Quantity Changed", df |-> diff_qty_df], [t |-> "Added", df |-> added_df],
      [t |-> "Removed", df |-> removed_df]>>

\* the forecast rows of the (lowercase-trimmed station, normalized NDC) of an order row
ForecastMatches(l) ==
    {j \in DOMAIN forecast_df.rows :
        /\ lower(strip(forecast_df.rows[j].data["StationName"]))
              = lower(strip(l.data["Notes"]))
        /\ forecast_df.rows[j].data["NDC"] = l.data["NDC"]}

OutputOf(t, l) == {i \in Records(t) : unified_df.rows[i].left_index = l.index}

\* C4: a classified row with m matching forecast rows gives one unified record with
\* null forecast columns when m = 0 and m records, one per matching forecast row,
\* when m >= 1; every record comes from a classified row, so each subset has at
\* least as many records as classified rows.
C4_LeftJoin ==
    AfterMerge =>
        \A n \in DOMAIN Classified :
            LET t == Classified[n].t
                cf == Classified[n].df
            IN  /\ \A x \in DOMAIN cf.rows :
                    LET l == cf.rows[x]
                        m == ForecastMatches(l)
                        out == OutputOf(t, l)
                    IN  IF m = {}
                        THEN /\ Cardinality(out) = 1
                             /\ \A i \in out :
                                  /\ DOMAIN unified_df.rows[i].data = DOMAIN l.data
                                  /\ unified_df.rows[i].right_index = -1
                        ELSE /\ Cardinality(out) = Cardinality(m)
                             /\ {unified_df.rows[i].right_index : i \in out}
                                  = {forecast_df.rows[j].index : j \in m}
                             /\ \A i \in out :
                                  LET f == RowLabelled(forecast_df,
                                                       unified_df.rows[i].right_index)
                                  IN  /\ unified_df.rows[i].data["StationName"]
                                            = f.data["StationName"]
                                      /\ unified_df.rows[i].data["NDC_Forecast"]
                                            = f.data["NDC"]
                /\ \A i \in Records(t) :
                    \E x \in DOMAIN cf.rows : cf.rows[x].index = unified_df.rows[i].left_index
                /\ Cardinality(Records(t)) >= Len(cf.rows)

\* one classified row with two matching forecast rows, another with none
C4_Witness ==
    /\ pc = "done"
    /\ \E n \in DOMAIN Classified :
        \E x \in DOMAIN Classified[n].df.rows :
            /\ Cardinality(ForecastMatches(Classified[n].df.rows[x])) = 2
            /\ Cardinality(OutputOf(Classified[n].t, Classified[n].df.rows[x])) = 2
    /\ \E n \in DOMAIN Classified :
        \E x \in DOMAIN Classified[n].df.rows :
            /\ ForecastMatches(Classified[n].df.rows[x]) = {}
            /\ Cardinality(OutputOf(Classified[n].t, Classified[n].df.rows[x])) = 1

\* C7 as stated: with the required columns present the Presenter does not fail, and
\* the report has the display columns that are in the merged table.
C7_OptionalColumnsOmitted ==
    pc \in {"done", "error"} =>
        /\ pc = "done"
        /\ Range(report.header) \subseteq unified_df.columns

Rank(t) == CASE t = "Quantity Changed" -> 1 [] t = "Added" -> 2 [] t = "Removed" -> 3

\* C8: in the unified table and in the report the Quantity Changed records come
\* first, then Added, then Removed; within a subset the records follow the rows of
\* their source table, the records of one row together and in forecast row order.
C8_Order ==
    /\ AfterMerge =>
        \A i, j \in DOMAIN unified_df.rows :
            i < j =>
                LET a == unified_df.rows[i]
                    b == unified_df.rows[j]
                IN  /\ Rank(ChangeTypeOf(a)) <= Rank(ChangeTypeOf(b))
                    /\ ChangeTypeOf(a) = ChangeTypeOf(b) => a.left_index <= b.left_index
                    /\ (ChangeTypeOf(a) = ChangeTypeOf(b) /\ a.left_index = b.left_index)
                          => a.right_index < b.right_index
    /\ pc = "done" =>
        /\ Len(report.rows) = Len(unified_df.rows)
        /\ \A i \in DOMAIN report.rows :
              /\ report.rows[i]["ChangeType"] = ChangeTypeOf(unified_df.rows[i])
              /\ report.rows[i]["Notes"] = unified_df.rows[i].data["Notes"]
              /\ report.rows[i]["Quantity"] = unified_df.rows[i].data["Quantity"]

\* the three kinds of record in one report
C8_Witness ==
    /\ pc = "done"
    /\ Len(report.rows) >= 3
    /\ \A t \in {"Quantity Changed", "Added", "Removed"} :
          \E i \in DOMAIN report.rows : report.rows[i]["ChangeType"] = t

Unparseable(q) == ~ParsesAsNumber(q)

ZeroOrUnparseable(q) == Unparseable(q) \/ DecimalValue(q) = 0

LastRawQuantity(df, raw, k) == raw.rows[LastRowWithKey(df, k)].data["Quantity"]

\* C9: no row is lost to coercion and an unparseable quantity is the number 0; a key
\* whose two sides are 0 or unparseable is not Quantity Changed; a key with one side
\* unparseable and the other a non-zero number is, the unparseable side shown as 0.
C9_UnparseableIsZero ==
    /\ AfterPrepare =>
        /\ Len(draft_df.rows) = Len(draft_raw.rows)
        /\ Len(submitted_df.rows) = Len(submitted_raw.rows)
        /\ \A i \in DOMAIN draft_df.rows :
              Unparseable(draft_raw.rows[i].data["Quantity"])
                  => draft_df.rows[i].data["Quantity"] = 0
        /\ \A i \in DOMAIN submitted_df.rows :
              Unparseable(submitted_raw.rows[i].data["Quantity"])
                  => submitted_df.rows[i].data["Quantity"] = 0
    /\ AfterMerge =>
        \A k \in KeySet(draft_df) \cap KeySet(submitted_df) :
            LET dq == LastRawQuantity(draft_df, draft_raw, k)
                sq == LastRawQuantity(submitted_df, submitted_raw, k)
                recs == {i \in Records("Quantity Changed") : unified_df.rows[i].data["Key"] = k}
            IN  /\ (ZeroOrUnparseable(dq) /\ ZeroOrUnparseable(sq)) =>
                      (k \notin Range(diff_qty) /\ recs = {})
                /\ (Unparseable(dq) /\ ~ZeroOrUnparseable(sq)) =>
                      /\ k \in Range(diff_qty)
                      /\ \E i \in recs :
                            /\ unified_df.rows[i].left_index = LastRowWithKey(draft_df, k) - 1
                            /\ unified_df.rows[i].data["Quantity"] = 0
                            /\ unified_df.rows[i].data["Submitted Quantity"] = DecimalValue(sq)
                /\ (Unparseable(sq) /\ ~ZeroOrUnparseable(dq)) =>
                      /\ k \in Range(diff_qty)
                      /\ recs # {}
                      /\ \A i \in recs : unified_df.rows[i].data["Submitted Quantity"] = 0

\* draft quantity "x" against submitted 5 is reported as 0 against 5, and in the same
\* run a key with "x" against 0 is not reported
C9_Witness ==
    /\ pc = "done"
    /\ \E i \in Records("Quantity Changed") :
        /\ Unparseable(draft_raw.rows[unified_df.rows[i].left_index + 1].data["Quantity"])
        /\ report.rows[i]["Quantity"] = 0
        /\ report.rows[i]["Submitted Quantity"] = 5
    /\ \E k \in KeySet(draft_df) \cap KeySet(submitted_df) :
        /\ Unparseable(LastRawQuantity(draft_df, draft_raw, k))
        /\ LastRawQuantity(submitted_df, submitted_raw, k) = <<"0">>
        /\ k \notin KeySet(unified_df)

\* C10 as stated: every Quantity Changed record has Quantity different from
\* Submitted Quantity.
C10_QuantityDiffers ==
    AfterMerge =>
        \A i \in Records("Quantity Changed") :
            unified_df.rows[i].data["Quantity"] # unified_df.rows[i].data["Submitted Quantity"]

\* C10 amended: the draft mapping's quantity for the key of a Quantity Changed record
\* (the last draft row with that key) differs from Submitted Quantity; so does the
\* Quantity of the record built from that last row, and of every record when no two
\* draft rows share a match key.
C10_MappedQuantityDiffers ==
    AfterMerge =>
        \A i \in Records("Quantity Changed") :
            LET r == unified_df.rows[i]
                k == r.data["Key"]
            IN  /\ k \in KeySet(draft_df)
                /\ LastQuantity(draft_df, k) # r.data["Submitted Quantity"]
                /\ r.left_index = LastRowWithKey(draft_df, k) - 1
                      => r.data["Quantity"] # r.data["Submitted Quantity"]
                /\ ~HasDuplicateKey(draft_df)
                      => r.data["Quantity"] # r.data["Submitted Quantity"]

\* two draft rows of one key, quantities 0 then 5, submitted 0: the first is a
\* Quantity Changed record with Quantity = Submitted Quantity
C10_Witness ==
    /\ pc = "done"
    /\ HasDuplicateKey(draft_df)
    /\ \E i, j \in Records("Quantity Changed") :
        /\ unified_df.rows[i].data["Key"] = unified_df.rows[j].data["Key"]
        /\ unified_df.rows[i].data["Quantity"] = unified_df.rows[i].data["Submitted Quantity"]
        /\ unified_df.rows[j].data["Quantity"] # unified_df.rows[j].data["Submitted Quantity"]

====
